---- MODULE Spec2Model ----
(***************************************************************************)
(* A model of the rareships contract (src/src/lib.rs), its inventory       *)
(* (src/src/inventory.rs) and its planets (src/src/planets.rs).            *)
(*                                                                         *)
(* Ships execute queued orders against the block number: settle recharges  *)
(* the energy and advances the head order from the stored state and the    *)
(* current block alone.  Every message of the contract is one action.  A   *)
(* message that returns Err persists nothing (the ink! call reverts), so   *)
(* only its outcome is recorded.                                            *)
(***************************************************************************)
EXTENDS Integers, Sequences, FiniteSets, TLC

VARIABLES
    now,        \* self.env().block_number()
    ships,      \* Rareships.ships    : Mapping<ShipId, Ship>
    ship_ids,   \* Rareships.ship_ids : Lazy<Vec<ShipId>>
    planets,    \* Rareships.planets  : Mapping<PlanetId, Planet>
    admin,      \* Rareships.admin
    inv,        \* a stand-alone Inventory, driven by add_item alone
    issued,     \* the orders order() has accepted so far (bounds the model)
    coord,      \* an offset position, its cube coordinates and the way back
    last        \* the latest call: its message, outcome and the values it computed

vars == <<now, ships, ship_ids, planets, admin, inv, issued, coord, last>>

(***************************************************************************)
(* Program constants.                                                      *)
(***************************************************************************)
MAX_X == 10000
MAX_Y == 10000
MAX_STACK == 64
SPAWN_MAX_SPEED == 10000
SPAWN_MAX_INVENTORY_SIZE == 4
SPAWN_MAX_CARGO_SIZE == 4
SPAWN_MAX_ENERGY == 1000
SPAWN_ENERGY == 1000
SPAWN_HEALTH == 100
SPAWN_MAX_HEALTH == 100
SPAWN_RECHARGE_RATE == 10
SPAWN_INVENTORY_SLOTS == 4
SPAWN_CARGO_SLOTS == 32
MILLI == 1000
ENERGY_SCALE == 100
BASIC_INVENTORY_SIZE == 1
BASIC_MINING_RATE == 1

(***************************************************************************)
(* Bounds of the model.                                                    *)
(***************************************************************************)
\* Messages arrive at the blocks 0 .. MaxTick, and at LongWait.
MaxTick == 1
\* order() is offered until it has accepted MaxOrders orders.
MaxOrders == 2
\* Slot capacities of the stand-alone inventory: 0 .. MaxSlots.
MaxSlots == 3
\* The orders order() accepts where the order queue is what is studied.
MaxQueued == 3
\* Where settlement schedules are compared, messages arrive at the blocks
\* 0 .. MaxScheduleTick.
MaxScheduleTick == 2
\* Offset coordinates are drawn from 0 .. MaxCoord and from the MaxCoord + 1
\* highest columns and rows of the grid.
MaxCoord == 5

\* A wait long enough for a ship at speed 99 to cover more than MAX_X tiles:
\* 101021 * 99 / 1000 = 10001.  Every product the code forms stays below 2^31.
LongWait == 101021

(***************************************************************************)
(* Rust integer arithmetic: / truncates toward zero, % takes the sign of   *)
(* the dividend, and x & 1 is the lowest bit of the two's complement.      *)
(***************************************************************************)
TruncDiv(a, b) ==
    IF a >= 0 THEN a \div b ELSE -((-a) \div b)

Rem(a, b) == a - b * TruncDiv(a, b)

LowBit(a) == a % 2

None == <<>>
Some(t) == <<t>>

(***************************************************************************)
(* Mapping<K, V>: a function whose domain is the set of keys present.      *)
(***************************************************************************)
EmptyMap == [k \in {} |-> 0]

Insert(map, key, value) ==
    [k \in (DOMAIN map) \cup {key} |-> IF k = key THEN value ELSE map[k]]

(***************************************************************************)
(* inventory.rs                                                            *)
(***************************************************************************)
ResourceTypes == {"Iron", "Copper", "Silver", "Gold", "Uranium"}

\* Resource::new
NewResource(resource_type, quantity) ==
    [tag |-> "Resource", id |-> 0, resource_type |-> resource_type, quantity |-> quantity]

Weapon(id, damage, range, energy_cost) ==
    [tag |-> "Weapon", id |-> id, damage |-> damage, range |-> range,
     energy_cost |-> energy_cost]

Armor(id, defense) ==
    [tag |-> "Armor", id |-> id, defense |-> defense]

\* Inventory::new
NewInventory(max_size) ==
    [items |-> <<>>, max_size |-> max_size]

\* The loop of add_item over self.items, from index i on: `quantity` is what
\* the incoming resource still carries.  A stack of the same type takes the
\* whole of it; past 64 the stack is cut to 64 and the excess is carried on.
RECURSIVE StackInto(_, _, _, _)
StackInto(items, i, resource_type, quantity) ==
    IF i > Len(items) THEN
        [items |-> items, quantity |-> quantity, found |-> FALSE]
    ELSE IF items[i].tag = "Resource" /\ items[i].resource_type = resource_type THEN
        LET sum == items[i].quantity + quantity IN
        IF sum > MAX_STACK THEN
            StackInto([items EXCEPT ![i].quantity = MAX_STACK], i + 1,
                      resource_type, sum - MAX_STACK)
        ELSE
            [items |-> [items EXCEPT ![i].quantity = sum], quantity |-> quantity,
             found |-> TRUE]
    ELSE
        StackInto(items, i + 1, resource_type, quantity)

\* A capacity check that lets one item too many in.
IsFullOffByOne(inventory) ==
    Len(inventory.items) > inventory.max_size

\* The capacity check that opens add_item.
IsFull(inventory) ==
    Len(inventory.items) >= inventory.max_size

\* An add_item that checks the capacity only when it has to push a new entry.
add_item_merge_first(inventory, item) ==
    IF item.tag = "Resource" THEN
        LET scan == StackInto(inventory.items, 1, item.resource_type, item.quantity) IN
        IF scan.found THEN
            [res |-> "Ok", inventory |-> [inventory EXCEPT !.items = scan.items]]
        ELSE IF IsFull(inventory) THEN
            [res |-> "InventoryFull", inventory |-> inventory]
        ELSE
            [res |-> "Ok",
             inventory |-> [inventory EXCEPT !.items =
                 Append(scan.items, [item EXCEPT !.quantity = scan.quantity])]]
    ELSE IF IsFull(inventory) THEN
        [res |-> "InventoryFull", inventory |-> inventory]
    ELSE
        [res |-> "Ok", inventory |-> [inventory EXCEPT !.items = Append(@, item)]]

\* Inventory::add_item: the outcome and the inventory it leaves.
add_item(inventory, item) ==
    IF IsFull(inventory) THEN
        [res |-> "InventoryFull", inventory |-> inventory]
    ELSE IF item.tag = "Resource" THEN
        LET scan == StackInto(inventory.items, 1, item.resource_type, item.quantity) IN
        IF scan.found THEN
            [res |-> "Ok", inventory |-> [inventory EXCEPT !.items = scan.items]]
        ELSE
            [res |-> "Ok",
             inventory |-> [inventory EXCEPT !.items =
                 Append(scan.items, [item EXCEPT !.quantity = scan.quantity])]]
    ELSE
        [res |-> "Ok", inventory |-> [inventory EXCEPT !.items = Append(@, item)]]

(***************************************************************************)
(* planets.rs                                                              *)
(***************************************************************************)
\* Planet::new(id, PlanetLevel::Basic, position)
NewBasicPlanet(id, position) ==
    [id |-> id, level |-> "Basic", position |-> position, owner |-> None,
     resources |-> <<"Iron">>, mining_rates |-> <<BASIC_MINING_RATE>>,
     inventory |-> NewInventory(BASIC_INVENTORY_SIZE)]

\* planet.get_resources().contains(resource_type)
HasResource(planet, resource_type) ==
    \E i \in 1..Len(planet.resources) : planet.resources[i] = resource_type

\* Planet::get_mining_rate: the rate of the last entry of that type, else 0.
RECURSIVE MiningRateFrom(_, _, _, _)
MiningRateFrom(planet, resource_type, i, rate) ==
    IF i > Len(planet.resources) THEN rate
    ELSE MiningRateFrom(planet, resource_type, i + 1,
             IF planet.resources[i] = resource_type THEN planet.mining_rates[i] ELSE rate)

\* A planet that yields nothing.
get_mining_rate_nothing(planet, resource_type) == 0

get_mining_rate(planet, resource_type) ==
    MiningRateFrom(planet, resource_type, 1, 0)

(***************************************************************************)
(* lib.rs: the hex grid and the energy costs                               *)
(***************************************************************************)
Directions == {"NorthWest", "NorthEast", "East", "SouthEast", "SouthWest", "West"}

offset_coordinates_to_cube_coordinates(c) ==
    LET col == c[1]
        row == c[2]
        q == col - TruncDiv(row - LowBit(row), 2)
        r == row
    IN <<q, r, (-q) - r>>

\* The conversion of the layout that shoves the even rows.
cube_coordinates_to_offset_coordinates_even_r(c) ==
    LET q == c[1]
        r == c[2]
        col == q + TruncDiv(r + LowBit(r), 2)
        row == r
    IN <<col, row>>

cube_coordinates_to_offset_coordinates(c) ==
    LET q == c[1]
        r == c[2]
        col == q + TruncDiv(r - LowBit(r), 2)
        row == r
    IN <<col, row>>

move_energy_per_tile(speed, max_speed) ==
    TruncDiv(ENERGY_SCALE * speed, max_speed)

\* A tenth of the energy a block of mining costs.
mine_energy_per_block_tenth == ENERGY_SCALE \div 10

mine_energy_per_block == 100

\* The match on the direction in settle_movement.
StepCube(c, direction, n) ==
    LET q == c[1]
        r == c[2]
        s == c[3]
    IN CASE direction = "NorthWest" -> <<q, r - n, s + n>>
         [] direction = "NorthEast" -> <<q + n, r - n, s>>
         [] direction = "East"      -> <<q + n, r, s - n>>
         [] direction = "SouthEast" -> <<q, r + n, s - n>>
         [] direction = "SouthWest" -> <<q - n, r + n, s>>
         [] direction = "West"      -> <<q - n, r, s + n>>

\* The wrap of settle_movement: MAX is added once to a negative coordinate,
\* then the remainder is taken.
WrapPosition(p) ==
    LET x == IF p[1] < 0 THEN MAX_X + p[1] ELSE p[1]
        y == IF p[2] < 0 THEN MAX_Y + p[2] ELSE p[2]
    IN <<Rem(x, MAX_X), Rem(y, MAX_Y)>>

(***************************************************************************)
(* lib.rs: orders and ships                                                *)
(***************************************************************************)
MoveOrder(direction, speed, distance) ==
    [tag |-> "Move", direction |-> direction, speed |-> speed, distance |-> distance]

MineOrder(planet_id, resource_type, duration) ==
    [tag |-> "Mine", planet_id |-> planet_id, resource_type |-> resource_type,
     duration |-> duration]

\* One slot of Ship.orders: (Order, Option<Block>).
Slot(order, start) == [order |-> order, start |-> start]

\* The Ship that spawn stores.
NewShip(ship_id, caller, block) ==
    [id |-> ship_id, name |-> "", owner |-> caller,
     max_speed |-> SPAWN_MAX_SPEED,
     max_inventory_size |-> SPAWN_MAX_INVENTORY_SIZE,
     max_cargo_size |-> SPAWN_MAX_CARGO_SIZE,
     max_energy |-> SPAWN_MAX_ENERGY,
     max_health |-> SPAWN_MAX_HEALTH,
     recharge_rate |-> SPAWN_RECHARGE_RATE,
     position |-> <<0, 0>>,
     energy |-> SPAWN_ENERGY,
     health |-> SPAWN_HEALTH,
     inventory |-> NewInventory(SPAWN_INVENTORY_SLOTS),
     cargo |-> NewInventory(SPAWN_CARGO_SLOTS),
     orders |-> <<>>,
     last_recharge |-> block]

\* A removal that takes the first entry, whatever the index.
RemoveFirst(seq, index) == Tail(seq)

\* Vec::remove(index), index counted from 0.
RemoveAt(seq, index) ==
    SubSeq(seq, 1, index) \o SubSeq(seq, index + 2, Len(seq))

\* A validation that also refuses a Move of speed 0.
ValidateOrderStrict(ship, order) ==
    IF order.tag = "Move" THEN
        IF order.speed <= 0 \/ order.speed > ship.max_speed \/ order.distance <= 0
        THEN "InvalidOrder" ELSE "Ok"
    ELSE
        IF order.duration <= 0 THEN "InvalidOrder"
        ELSE IF order.planet_id \notin DOMAIN planets THEN "PlanetNotFound"
        ELSE IF ~HasResource(planets[order.planet_id], order.resource_type)
             THEN "InvalidOrder"
        ELSE "Ok"

\* The checks of order() on the order itself.
ValidateOrder(ship, order) ==
    IF order.tag = "Move" THEN
        IF order.speed < 0 \/ order.speed > ship.max_speed \/ order.distance <= 0
        THEN "InvalidOrder" ELSE "Ok"
    ELSE
        IF order.duration <= 0 THEN "InvalidOrder"
        ELSE IF order.planet_id \notin DOMAIN planets THEN "PlanetNotFound"
        ELSE IF ~HasResource(planets[order.planet_id], order.resource_type)
             THEN "InvalidOrder"
        ELSE "Ok"

\* A start tick for every new entry, wherever it lands in the queue.
StartOfNewOrderAlways(orders, block) == Some(block)

\* The start tick order() gives the entry it appends.
StartOfNewOrder(orders, block) ==
    IF orders = <<>> THEN Some(block) ELSE None

(***************************************************************************)
(* lib.rs: settlement                                                      *)
(***************************************************************************)
\* A recharge that wraps around max_energy instead of stopping at it.
settle_recharge_wrapping(ship, block) ==
    LET elapsed == block - ship.last_recharge IN
    IF elapsed > 0 /\ ship.energy < ship.max_energy THEN
        LET amount == elapsed * ship.recharge_rate
            sum == ship.energy + amount
            new_energy == IF sum > ship.max_energy THEN sum % ship.max_energy ELSE sum
        IN [ship EXCEPT !.energy = new_energy, !.last_recharge = block]
    ELSE ship

\* settle_recharge
settle_recharge(ship, block) ==
    LET elapsed == block - ship.last_recharge IN
    IF elapsed > 0 /\ ship.energy < ship.max_energy THEN
        LET amount == elapsed * ship.recharge_rate
            sum == ship.energy + amount
            new_energy == IF sum > ship.max_energy THEN ship.max_energy ELSE sum
        IN [ship EXCEPT !.energy = new_energy, !.last_recharge = block]
    ELSE ship

\* The tiles a Move covers in `elapsed` blocks, at most its distance.
TilesToMove(elapsed, speed, distance) ==
    LET tiles == TruncDiv(elapsed * speed, MILLI) IN
    IF tiles > distance THEN distance ELSE tiles

\* A step that is never cut down to what the energy pays for.
AffordableTilesUnclamped(cost, tiles, energy) ==
    tiles

\* The tiles the energy pays for: energy / cost when the whole step costs more
\* than the ship has.
AffordableTiles(cost, tiles, energy) ==
    IF cost * tiles > energy THEN TruncDiv(energy, cost) ELSE tiles

\* A division energy / cost that no test of the step's price stands before.
DividesByZeroUnguarded(cost, tiles, energy) ==
    cost = 0

\* The division energy / cost is reached, and the cost is 0.
DividesByZero(cost, tiles, energy) ==
    cost * tiles > energy /\ cost = 0

\* The position after `tiles` steps, as settle_movement computes it.
MovedPosition(position, direction, tiles) ==
    WrapPosition(cube_coordinates_to_offset_coordinates(
        StepCube(offset_coordinates_to_cube_coordinates(position), direction, tiles)))

\* A pop that stamps every entry left in the queue.
PopAndRestampAll(orders, block) ==
    LET rest == RemoveAt(orders, 0) IN
    [i \in 1..Len(rest) |-> [rest[i] EXCEPT !.start = Some(block)]]

\* The head order is finished: it is removed and the next one, if any, starts.
PopAndRestamp(orders, block) ==
    LET rest == RemoveAt(orders, 0) IN
    IF rest # <<>> THEN [rest EXCEPT ![1].start = Some(block)] ELSE rest

\* settle_movement returns no Err; a division by zero would trap, and the
\* call would store nothing.  `ran` tells whether it got past its early
\* returns; cost and tiles are the values it then computed.
settle_movement(ship, direction, speed, distance, start, block) ==
    LET elapsed == block - start
        idle == [res |-> "Ok", ship |-> ship, ran |-> FALSE, cost |-> 0, full |-> 0,
                 tiles |-> 0]
        trap == [idle EXCEPT !.res = "DivisionByZero"]
    IN
    IF elapsed = 0 \/ elapsed * speed < MILLI THEN idle
    ELSE IF TilesToMove(elapsed, speed, distance) <= 0 THEN idle
    ELSE IF ship.max_speed = 0 THEN trap
    ELSE IF DividesByZero(move_energy_per_tile(speed, ship.max_speed),
                          TilesToMove(elapsed, speed, distance), ship.energy) THEN trap
    ELSE
        LET cost == move_energy_per_tile(speed, ship.max_speed)
            tiles_to_move ==
                AffordableTiles(cost, TilesToMove(elapsed, speed, distance), ship.energy)
            rest == distance - tiles_to_move
            orders ==
                IF rest = 0 THEN PopAndRestamp(ship.orders, block)
                ELSE [ship.orders EXCEPT
                         ![1] = Slot(MoveOrder(direction, speed, rest), Some(block))]
        IN [res |-> "Ok",
            ship |-> [ship EXCEPT
                !.energy = @ - cost * tiles_to_move,
                !.position = MovedPosition(@, direction, tiles_to_move),
                !.orders = orders],
            ran |-> TRUE, cost |-> cost,
            full |-> TilesToMove(elapsed, speed, distance), tiles |-> tiles_to_move]

\* settle_mining
settle_mining(ship, planet_id, resource_type, duration, start, block) ==
    LET elapsed == block - start
        cost == mine_energy_per_block * duration
        out(res, s, ran) ==
            [res |-> res, ship |-> s, ran |-> ran, cost |-> IF ran THEN cost ELSE 0,
             full |-> 0, tiles |-> 0]
    IN
    IF elapsed < duration THEN out("Ok", ship, FALSE)
    ELSE IF cost > ship.energy THEN out("Ok", ship, FALSE)
    ELSE IF planet_id \notin DOMAIN planets THEN out("PlanetNotFound", ship, FALSE)
    ELSE
        LET planet == planets[planet_id] IN
        IF planet.position # ship.position THEN out("ResourceNotFound", ship, FALSE)
        ELSE IF planet.owner # None /\ planet.owner # Some(ship.owner)
             THEN out("NotPlanetOwner", ship, FALSE)
        ELSE IF ~HasResource(planet, resource_type)
             THEN out("ResourceNotFound", ship, FALSE)
        ELSE
            LET amount == get_mining_rate(planet, resource_type) * duration
                added == add_item(ship.cargo, NewResource(resource_type, amount))
            IN
            IF added.res # "Ok" THEN out("NotEnoughInventorySpace", ship, FALSE)
            ELSE out("Ok",
                     [ship EXCEPT !.energy = @ - cost,
                                  !.cargo = added.inventory,
                                  !.orders = PopAndRestamp(@, block)],
                     TRUE)

\* An empty queue that falls through to first().ok_or(InvalidOrder).
EmptyQueueRejected(ship) ==
    [res |-> "InvalidOrder", ship |-> ship, ran |-> FALSE, cost |-> 0, full |-> 0,
     tiles |-> 0, branch |-> "empty"]

\* The early return of settle_top_order on an empty queue.
EmptyQueueOutcome(ship) ==
    [res |-> "Ok", ship |-> ship, ran |-> FALSE, cost |-> 0, full |-> 0,
     tiles |-> 0, branch |-> "empty"]

\* A settle_top_order that lets a head without start tick pass.
settle_top_order_lenient(ship, block) ==
    IF ship.orders = <<>> THEN EmptyQueueOutcome(ship)
    ELSE
        LET head == ship.orders[1] IN
        IF head.start = None THEN
            [res |-> "Ok", ship |-> ship, ran |-> FALSE, cost |-> 0,
             full |-> 0, tiles |-> 0, branch |-> "unstamped"]
        ELSE IF head.order.tag = "Move" THEN
            [branch |-> "Move"] @@
            settle_movement(ship, head.order.direction, head.order.speed,
                            head.order.distance, head.start[1], block)
        ELSE
            [branch |-> "Mine"] @@
            settle_mining(ship, head.order.planet_id, head.order.resource_type,
                          head.order.duration, head.start[1], block)

\* settle_top_order: the branch taken, the outcome and the ship it leaves.
settle_top_order(ship, block) ==
    IF ship.orders = <<>> THEN EmptyQueueOutcome(ship)
    ELSE
        LET head == ship.orders[1] IN
        IF head.start = None THEN
            [res |-> "InvalidOrder", ship |-> ship, ran |-> FALSE, cost |-> 0,
             full |-> 0, tiles |-> 0, branch |-> "unstamped"]
        ELSE IF head.order.tag = "Move" THEN
            [branch |-> "Move"] @@
            settle_movement(ship, head.order.direction, head.order.speed,
                            head.order.distance, head.start[1], block)
        ELSE
            [branch |-> "Mine"] @@
            settle_mining(ship, head.order.planet_id, head.order.resource_type,
                          head.order.duration, head.start[1], block)

(***************************************************************************)
(* The inputs the messages are called with.                                *)
(***************************************************************************)
Accounts == {"alice", "bob"}
ShipIds == {1}
PlanetIds == {1}
PlanetPositions == {<<0, 0>>}

\* The block numbers at which messages arrive.
Blocks == (0..MaxTick) \cup {LongWait}

\* The accounts that spawn ships.
Spawners == {"alice"}

\* Orders that order() accepts for a fresh ship, and orders it must reject.
OrderInputs ==
    { MoveOrder("East", 1000, 5),          \* 1 tile per block, 10 energy per tile
      MoveOrder("West", 99, 20000),        \* cost 100 * 99 / 10000 = 0
      MoveOrder("NorthWest", 10000, 12),   \* 10 tiles per block, 100 energy per tile
      MoveOrder("SouthEast", 0, 1),        \* speed 0 passes the validation
      MoveOrder("East", -1, 1),
      MoveOrder("East", 10001, 1),
      MoveOrder("East", 1000, 0),
      MineOrder(1, "Iron", 2),
      MineOrder(1, "Iron", 11),            \* costs more than max_energy
      MineOrder(1, "Iron", 0),
      MineOrder(1, "Copper", 1) }

\* Orders for the study of the queue: a Move that one block completes, a Move
\* that takes two, and a Mine of one block.
QueueOrders ==
    { MoveOrder("East", 1000, 1),
      MoveOrder("East", 1000, 2),
      MineOrder(1, "Iron", 1) }

\* Moves for the study of progress: each one's whole cost is within the energy
\* of a fresh ship and its whole distance within the wait to the last block.
\* One has speed 0.
LiveOrders ==
    { MoveOrder("East", 1000, 5),
      MoveOrder("West", 99, 3),
      MoveOrder("SouthEast", 0, 1) }

\* Mines for the study of progress: of 2 blocks, of the 10 blocks a full
\* battery pays for, and of 11 blocks.
MineOrders ==
    { MineOrder(1, "Iron", 2),
      MineOrder(1, "Iron", 10),
      MineOrder(1, "Iron", 11) }

\* The two ships whose settlement schedules are compared.
ScheduleShips == {1, 2}

\* Moves for the comparison of schedules, each paid in full by the energy of a
\* fresh ship: one of a whole tile per block, one of a tile and a half.
ScheduleOrders ==
    { MoveOrder("East", 1000, 3),
      MoveOrder("East", 1500, 3) }

ItemInputs ==
    { Weapon(1, 10, 3, 5), Armor(2, 7) }
    \cup { NewResource("Iron", q) : q \in {20, 40, 64, 65} }
    \cup { NewResource("Copper", 40) }

\* No coordinate conversion is under way.
NoCoord == [offset |-> <<0, 0>>, cube |-> None, back |-> None]

\* What a call leaves in `last`: the message, the ship it names, its outcome,
\* for order and drop_order the caller and the argument (the order, the index),
\* for add_item the item; for settle the branch of settle_top_order, whether the
\* head order got past its early returns, the energy after the recharge step,
\* the cost the head order computed, and for a Move the tiles it had time for
\* (full) and the tiles it moved.
Call(op, ship_id, res) ==
    [op |-> op, ship |-> ship_id, res |-> res, caller |-> "", arg |-> <<>>,
     item |-> <<>>, branch |-> "none",
     ran |-> FALSE, e_recharged |-> 0, cost |-> 0, full |-> 0, tiles |-> 0]

(***************************************************************************)
(* The state after the constructor.                                        *)
(***************************************************************************)
Init ==
    /\ now = 0
    /\ ships = EmptyMap
    /\ ship_ids = <<>>
    /\ planets = EmptyMap
    /\ admin = "alice"
    /\ issued = 0
    /\ inv = NewInventory(0)
    /\ coord = NoCoord
    /\ last = Call("new", 0, "Ok")

(***************************************************************************)
(* The messages.                                                           *)
(***************************************************************************)
\* The host advances the block number to a later block.
Tick(block) ==
    /\ block > now
    /\ now' = block
    /\ last' = Call("tick", 0, "Ok")
    /\ UNCHANGED <<ships, ship_ids, planets, admin, inv, issued, coord>>

mint_planet(caller, planet_id, position) ==
    /\ IF caller # admin THEN
           /\ last' = Call("mint_planet", 0, "NotAuthorized")
           /\ UNCHANGED planets
       ELSE IF planet_id \in DOMAIN planets THEN
           /\ last' = Call("mint_planet", 0, "PlanetAlreadyExists")
           /\ UNCHANGED planets
       ELSE
           /\ planets' = Insert(planets, planet_id, NewBasicPlanet(planet_id, position))
           /\ last' = Call("mint_planet", 0, "Ok")
    /\ UNCHANGED <<now, ships, ship_ids, admin, inv, issued, coord>>

\* A spawn that does not look whether the id is taken.
spawn_unchecked(caller, ship_id) ==
    /\ ships' = Insert(ships, ship_id, NewShip(ship_id, caller, now))
    /\ ship_ids' = Append(ship_ids, ship_id)
    /\ last' = [Call("spawn", ship_id, "Ok") EXCEPT !.caller = caller]
    /\ UNCHANGED <<now, planets, admin, inv, issued, coord>>

spawn(caller, ship_id) ==
    /\ IF ship_id \in DOMAIN ships THEN
           /\ last' = [Call("spawn", ship_id, "ShipAlreadyExists") EXCEPT !.caller = caller]
           /\ UNCHANGED <<ships, ship_ids>>
       ELSE
           /\ ships' = Insert(ships, ship_id, NewShip(ship_id, caller, now))
           /\ ship_ids' = Append(ship_ids, ship_id)
           /\ last' = [Call("spawn", ship_id, "Ok") EXCEPT !.caller = caller]
    /\ UNCHANGED <<now, planets, admin, inv, issued, coord>>

order(caller, ship_id, new_order) ==
    LET said(res) == [Call("order", ship_id, res) EXCEPT
                         !.caller = caller, !.arg = <<new_order>>]
    IN
    /\ IF ship_id \notin DOMAIN ships THEN
           /\ last' = said("ShipNotFound")
           /\ UNCHANGED ships
       ELSE IF ships[ship_id].owner # caller THEN
           /\ last' = said("NotShipOwner")
           /\ UNCHANGED ships
       ELSE IF ValidateOrder(ships[ship_id], new_order) # "Ok" THEN
           /\ last' = said(ValidateOrder(ships[ship_id], new_order))
           /\ UNCHANGED ships
       ELSE
           /\ ships' = [ships EXCEPT ![ship_id].orders =
                  Append(@, Slot(new_order, StartOfNewOrder(@, now)))]
           /\ last' = said("Ok")
    /\ issued' = IF last'.res = "Ok" THEN issued + 1 ELSE issued
    /\ UNCHANGED <<now, ship_ids, planets, admin, inv, coord>>

drop_order(caller, ship_id, order_index) ==
    LET said(res) == [Call("drop_order", ship_id, res) EXCEPT
                         !.caller = caller, !.arg = <<order_index>>]
    IN
    /\ IF ship_id \notin DOMAIN ships THEN
           /\ last' = said("ShipNotFound")
           /\ UNCHANGED ships
       ELSE IF ships[ship_id].owner # caller THEN
           /\ last' = said("NotShipOwner")
           /\ UNCHANGED ships
       ELSE IF order_index >= Len(ships[ship_id].orders) THEN
           /\ last' = said("InvalidOrder")
           /\ UNCHANGED ships
       ELSE
           /\ ships' = [ships EXCEPT ![ship_id].orders = RemoveAt(@, order_index)]
           /\ last' = said("Ok")
    /\ UNCHANGED <<now, ship_ids, planets, admin, inv, issued, coord>>

\* A settle that stores the recharged ship before it turns to the head order.
settle_storing_recharge(ship_id) ==
    /\ IF ship_id \notin DOMAIN ships THEN
           /\ last' = Call("settle", ship_id, "ShipNotFound")
           /\ UNCHANGED ships
       ELSE
           LET recharged == settle_recharge(ships[ship_id], now)
               top == settle_top_order(recharged, now)
           IN /\ last' = [Call("settle", ship_id, top.res) EXCEPT
                             !.branch = top.branch, !.ran = top.ran,
                             !.e_recharged = recharged.energy,
                             !.cost = top.cost, !.full = top.full,
                             !.tiles = top.tiles]
              /\ IF top.res = "Ok"
                 THEN ships' = [ships EXCEPT ![ship_id] = top.ship]
                 ELSE ships' = [ships EXCEPT ![ship_id] = recharged]
    /\ UNCHANGED <<now, ship_ids, planets, admin, inv, issued, coord>>

\* settle, which is settle_ship: recharge, then the head order, then the save.
settle(ship_id) ==
    /\ IF ship_id \notin DOMAIN ships THEN
           /\ last' = Call("settle", ship_id, "ShipNotFound")
           /\ UNCHANGED ships
       ELSE
           LET recharged == settle_recharge(ships[ship_id], now)
               top == settle_top_order(recharged, now)
           IN /\ last' = [Call("settle", ship_id, top.res) EXCEPT
                             !.branch = top.branch, !.ran = top.ran,
                             !.e_recharged = recharged.energy,
                             !.cost = top.cost, !.full = top.full,
                             !.tiles = top.tiles]
              /\ IF top.res = "Ok"
                 THEN ships' = [ships EXCEPT ![ship_id] = top.ship]
                 ELSE UNCHANGED ships
    /\ UNCHANGED <<now, ship_ids, planets, admin, inv, issued, coord>>

settle_recharge_only(ship_id) ==
    /\ IF ship_id \notin DOMAIN ships THEN
           /\ last' = Call("settle_recharge_only", ship_id, "ShipNotFound")
           /\ UNCHANGED ships
       ELSE
           LET recharged == settle_recharge(ships[ship_id], now) IN
           /\ last' = [Call("settle_recharge_only", ship_id, "Ok") EXCEPT
                          !.e_recharged = recharged.energy]
           /\ ships' = [ships EXCEPT ![ship_id] = recharged]
    /\ UNCHANGED <<now, ship_ids, planets, admin, inv, issued, coord>>

Next ==
    \/ \E b \in Blocks : Tick(b)
    \/ \E c \in Accounts, p \in PlanetIds, pos \in PlanetPositions : mint_planet(c, p, pos)
    \/ \E c \in Spawners, s \in ShipIds : spawn(c, s)
    \/ \E c \in Accounts, s \in ShipIds, o \in OrderInputs :
          issued < MaxOrders /\ order(c, s, o)
    \/ \E c \in Accounts, s \in ShipIds, i \in 0..MaxOrders : drop_order(c, s, i)
    \/ \E s \in ShipIds : settle(s)
    \/ \E s \in ShipIds : settle_recharge_only(s)

Spec == Init /\ [][Next]_vars

(***************************************************************************)
(* The inventory on its own: Inventory::new(max_size), then add_item.      *)
(***************************************************************************)
InitInventory ==
    /\ now = 0
    /\ ships = EmptyMap
    /\ ship_ids = <<>>
    /\ planets = EmptyMap
    /\ admin = "alice"
    /\ issued = 0
    /\ coord = NoCoord
    /\ inv \in { NewInventory(n) : n \in 0..MaxSlots }
    /\ last = Call("new", 0, "Ok")

AddItem(item) ==
    LET added == add_item(inv, item) IN
    /\ last' = [Call("add_item", 0, added.res) EXCEPT !.item = <<item>>]
    /\ inv' = IF added.res = "Ok" THEN added.inventory ELSE inv
    /\ UNCHANGED <<now, ships, ship_ids, planets, admin, issued, coord>>

NextInventory == \E item \in ItemInputs : AddItem(item)

SpecInventory == InitInventory /\ [][NextInventory]_vars

(***************************************************************************)
(* The order queue: the messages of the contract, with up to MaxQueued     *)
(* orders drawn from QueueOrders.                                          *)
(***************************************************************************)
NextQueue ==
    \/ \E b \in Blocks : Tick(b)
    \/ \E c \in Accounts, p \in PlanetIds, pos \in PlanetPositions : mint_planet(c, p, pos)
    \/ \E c \in Spawners, s \in ShipIds : spawn(c, s)
    \/ \E c \in Accounts, s \in ShipIds, o \in QueueOrders :
          issued < MaxQueued /\ order(c, s, o)
    \/ \E c \in Accounts, s \in ShipIds, i \in 0..MaxQueued : drop_order(c, s, i)
    \/ \E s \in ShipIds : settle(s)
    \/ \E s \in ShipIds : settle_recharge_only(s)

SpecQueue == Init /\ [][NextQueue]_vars

(***************************************************************************)
(* The coordinate conversions on their own: an offset position of the grid *)
(* is converted to cube coordinates and back.                              *)
(***************************************************************************)
CoordInputs(max) == (0..MaxCoord) \cup ((max - 1 - MaxCoord)..(max - 1))

InitCoordinates ==
    /\ now = 0
    /\ ships = EmptyMap
    /\ ship_ids = <<>>
    /\ planets = EmptyMap
    /\ admin = "alice"
    /\ issued = 0
    /\ inv = NewInventory(0)
    /\ coord \in { [NoCoord EXCEPT !.offset = <<col, row>>] :
                      col \in CoordInputs(MAX_X), row \in CoordInputs(MAX_Y) }
    /\ last = Call("new", 0, "Ok")

ToCube ==
    /\ coord.cube = None
    /\ coord' = [coord EXCEPT
                     !.cube = Some(offset_coordinates_to_cube_coordinates(coord.offset))]
    /\ last' = Call("offset_coordinates_to_cube_coordinates", 0, "Ok")
    /\ UNCHANGED <<now, ships, ship_ids, planets, admin, inv, issued>>

ToOffset ==
    /\ coord.cube # None /\ coord.back = None
    /\ coord' = [coord EXCEPT
                     !.back = Some(cube_coordinates_to_offset_coordinates(coord.cube[1]))]
    /\ last' = Call("cube_coordinates_to_offset_coordinates", 0, "Ok")
    /\ UNCHANGED <<now, ships, ship_ids, planets, admin, inv, issued>>

NextCoordinates == ToCube \/ ToOffset

SpecCoordinates == InitCoordinates /\ [][NextCoordinates]_vars

(***************************************************************************)
(* Progress of a Move: ships are spawned and given Moves, no order is      *)
(* dropped, the block number keeps advancing up to the last block of the   *)
(* model and settle keeps being called as long as it changes anything.     *)
(***************************************************************************)
NextLive ==
    \/ \E b \in Blocks : Tick(b)
    \/ \E c \in Spawners, s \in ShipIds : spawn(c, s)
    \/ \E c \in Spawners, s \in ShipIds, o \in LiveOrders :
          issued < MaxOrders /\ order(c, s, o)
    \/ \E s \in ShipIds : settle(s)

SpecLive ==
    /\ Init /\ [][NextLive]_vars
    /\ WF_vars(\E b \in Blocks : Tick(b))
    /\ WF_vars(\E s \in ShipIds : settle(s))

(***************************************************************************)
(* Progress of a Mine: a planet is minted where ships are spawned, ships   *)
(* are given Mines and never move, no order is dropped, the block number   *)
(* keeps advancing up to the last block of the model and settle keeps      *)
(* being called as long as it changes anything.                            *)
(***************************************************************************)
NextMine ==
    \/ \E b \in Blocks : Tick(b)
    \/ \E c \in Accounts, p \in PlanetIds, pos \in PlanetPositions : mint_planet(c, p, pos)
    \/ \E c \in Spawners, s \in ShipIds : spawn(c, s)
    \/ \E c \in Spawners, s \in ShipIds, o \in MineOrders :
          issued < MaxOrders /\ order(c, s, o)
    \/ \E s \in ShipIds : settle(s)

SpecMine ==
    /\ Init /\ [][NextMine]_vars
    /\ WF_vars(\E b \in Blocks : Tick(b))
    /\ WF_vars(\E s \in ShipIds : settle(s))

(***************************************************************************)
(* Settlement schedules: at block 0 two ships are spawned and both are     *)
(* given the same single Move; then the blocks pass and each ship is       *)
(* settled at the blocks the caller picks.                                 *)
(***************************************************************************)
NextSchedule ==
    \/ \E b \in 0..MaxScheduleTick : Tick(b)
    \/ \E c \in Spawners, s \in ScheduleShips : now = 0 /\ spawn(c, s)
    \/ \E c \in Spawners, s \in ScheduleShips, o \in ScheduleOrders :
          /\ now = 0
          /\ s \in DOMAIN ships => ships[s].orders = <<>>
          /\ \A t \in DOMAIN ships :
                ships[t].orders # <<>> => ships[t].orders[1].order = o
          /\ order(c, s, o)
    \/ \E s \in ScheduleShips : settle(s)

SpecSchedule == Init /\ [][NextSchedule]_vars

(***************************************************************************)
(* What the properties are stated in.                                      *)
(***************************************************************************)
Min(a, b) == IF a <= b THEN a ELSE b

\* The call that has just been made is settle on the stored ship s.
Settled(s) ==
    s \in DOMAIN ships /\ last'.op = "settle" /\ last'.ship = s

\* The energy of ship s once settle at `now` has recharged it.
EnergyAfterRecharge(s) ==
    Min(ships[s].max_energy,
        ships[s].energy + (now - ships[s].last_recharge) * ships[s].recharge_rate)

\* The ship s as the recharge step alone leaves it.
OnlyRecharged(s) ==
    [ships[s] EXCEPT
        !.energy = EnergyAfterRecharge(s),
        !.last_recharge =
            IF now > ships[s].last_recharge /\ ships[s].energy < ships[s].max_energy
            THEN now ELSE @]

\* The position n steps from p in a direction on the torus of MAX_X columns
\* and MAX_Y rows.
TorusPosition(p, direction, n) ==
    LET c == cube_coordinates_to_offset_coordinates(
                 StepCube(offset_coordinates_to_cube_coordinates(p), direction, n))
    IN <<c[1] % MAX_X, c[2] % MAX_Y>>

(***************************************************************************)
(* C1  Idempotent settlement: a settle that directly follows a settle of   *)
(* the same ship at the same block leaves every stored ship as the first   *)
(* call left it.                                                            *)
(***************************************************************************)
IdempotentSettle ==
    [][\A s \in ShipIds :
          (last.op = "settle" /\ last.ship = s /\ Settled(s) /\ now' = now)
              => ships' = ships]_vars

(***************************************************************************)
(* C2  settle on a ship whose order queue is empty returns Ok and changes  *)
(* nothing of the stored ship.                                             *)
(***************************************************************************)
SettleEmptyQueueChangesNothing ==
    [][\A s \in ShipIds :
          (Settled(s) /\ ships[s].orders = <<>>)
              => (last'.res = "Ok" /\ ships'[s] = ships[s])]_vars

\* C2 as amended: settle on a ship whose order queue is empty returns Ok and
\* changes nothing but what the recharge step changes: position, cargo and the
\* empty queue stay; energy becomes min(max_energy, energy + elapsed *
\* recharge_rate) and last_recharge becomes now when elapsed > 0 and
\* energy < max_energy.
SettleEmptyQueueOnlyRecharges ==
    [][\A s \in ShipIds :
          (Settled(s) /\ ships[s].orders = <<>>)
              => (last'.res = "Ok" /\ ships'[s] = OnlyRecharged(s))]_vars

\* A settle on an empty queue has just recharged the ship, short of max_energy.
SettleEmptyQueueWitness ==
    \E s \in DOMAIN ships :
        /\ last.op = "settle" /\ last.ship = s /\ last.res = "Ok"
        /\ last.branch = "empty"
        /\ ships[s].orders = <<>>
        /\ ships[s].last_recharge = now /\ now > 0
        /\ ships[s].energy = last.e_recharged
        /\ ships[s].energy > 0 /\ ships[s].energy < ships[s].max_energy

(***************************************************************************)
(* C3  Position invariant: every stored ship stands at a position (x, y)   *)
(* with 0 <= x < MAX_X and 0 <= y < MAX_Y.                                  *)
(***************************************************************************)
PositionInGrid ==
    \A s \in DOMAIN ships :
        /\ 0 <= ships[s].position[1] /\ ships[s].position[1] < MAX_X
        /\ 0 <= ships[s].position[2] /\ ships[s].position[2] < MAX_Y

(***************************************************************************)
(* C4  Head-has-start invariant: the head of a non-empty order queue has a *)
(* start tick.                                                              *)
(***************************************************************************)
HeadHasStart ==
    \A s \in DOMAIN ships :
        ships[s].orders # <<>> => ships[s].orders[1].start # None

(***************************************************************************)
(* C5  Stacking cap: an inventory that holds only resource stacks of one   *)
(* type (add_item never removes, so only such items were added) has no     *)
(* stack above 64.                                                          *)
(***************************************************************************)
StackCap ==
    (\A i \in 1..Len(inv.items) :
        /\ inv.items[i].tag = "Resource"
        /\ inv.items[i].resource_type = inv.items[1].resource_type)
    => \A i \in 1..Len(inv.items) : inv.items[i].quantity <= MAX_STACK

(***************************************************************************)
(* C6  Energy bound: every stored ship has energy <= max_energy; the       *)
(* recharge step of settle and settle_recharge_only sets the energy to     *)
(* min(max_energy, energy + elapsed * recharge_rate), which is more than   *)
(* before whenever elapsed > 0 and energy < max_energy.                    *)
(***************************************************************************)
EnergyBound ==
    [][/\ \A s \in DOMAIN ships' : ships'[s].energy <= ships'[s].max_energy
       /\ \A s \in DOMAIN ships :
            (last'.op \in {"settle", "settle_recharge_only"} /\ last'.ship = s)
            => /\ last'.e_recharged = EnergyAfterRecharge(s)
               /\ (now > ships[s].last_recharge /\ ships[s].energy < ships[s].max_energy)
                      => last'.e_recharged > ships[s].energy
               /\ last'.op = "settle_recharge_only"
                      => ships'[s].energy = last'.e_recharged]_vars

\* A recharge has just raised the energy, short of max_energy.
EnergyBoundWitness ==
    \E s \in DOMAIN ships :
        /\ last.op = "settle_recharge_only" /\ last.ship = s
        /\ ships[s].last_recharge = now /\ now > 0
        /\ ships[s].energy = last.e_recharged
        /\ ships[s].energy > 0 /\ ships[s].energy < ships[s].max_energy

(***************************************************************************)
(* C7  Movement energy clamp: when settle moves a ship, the energy it      *)
(* deducts is move_energy_per_tile(speed, max_speed) times the tiles moved *)
(* and at most the energy the ship has after the recharge; the energy      *)
(* stays >= 0; a step that costs more than the ship has is cut to          *)
(* energy / cost tiles.                                                     *)
(***************************************************************************)
MoveEnergyClamp ==
    [][\A s \in ShipIds :
          (Settled(s) /\ last'.branch = "Move" /\ last'.ran)
          => LET head == ships[s].orders[1]
                 o == head.order
                 cost == (100 * o.speed) \div ships[s].max_speed
                 full == Min(o.distance, ((now - head.start[1]) * o.speed) \div 1000)
                 left == IF Len(ships'[s].orders) < Len(ships[s].orders) THEN 0
                         ELSE ships'[s].orders[1].order.distance
                 moved == o.distance - left
                 deducted == last'.e_recharged - ships'[s].energy
             IN /\ last'.res = "Ok"
                /\ last'.e_recharged = EnergyAfterRecharge(s)
                /\ last'.cost = cost /\ last'.full = full /\ last'.tiles = moved
                /\ deducted = cost * moved
                /\ deducted <= last'.e_recharged
                /\ ships'[s].energy >= 0
                /\ cost * full > last'.e_recharged
                       => moved = last'.e_recharged \div cost
                /\ cost * full <= last'.e_recharged => moved = full]_vars

\* A Move has just been cut short by the energy: the ship had time for 12 tiles,
\* paid for 10 and has no energy left.
MoveEnergyClampWitness ==
    \E s \in DOMAIN ships :
        /\ last.op = "settle" /\ last.ship = s /\ last.res = "Ok"
        /\ last.branch = "Move" /\ last.ran
        /\ last.cost = 100 /\ last.full = 12 /\ last.tiles = 10
        /\ last.e_recharged = 1000
        /\ ships[s].energy = 0
        /\ ships[s].orders # <<>>
        /\ ships[s].orders[1].order = MoveOrder("NorthWest", 10000, 2)

(***************************************************************************)
(* C8  Inventory capacity: len(items) <= max_size after any sequence of    *)
(* add_item calls.                                                          *)
(***************************************************************************)
InventoryCapacity ==
    Len(inv.items) <= inv.max_size

\* A resource has just overflowed its stack and the rest has taken the last
\* free slot.
InventoryCapacityWitness ==
    /\ last.op = "add_item" /\ last.res = "Ok"
    /\ last.item[1] = NewResource("Iron", 40)
    /\ inv.max_size = 2
    /\ inv.items = <<NewResource("Iron", 64), NewResource("Iron", 16)>>

(***************************************************************************)
(* C9  Capacity enforcement: add_item on an inventory with len(items) =    *)
(* max_size returns InventoryFull and leaves the inventory as it was,      *)
(* whatever the item.                                                       *)
(***************************************************************************)
FullInventoryRejects ==
    [][(last'.op = "add_item" /\ Len(inv.items) = inv.max_size)
           => (last'.res = "InventoryFull" /\ inv' = inv)]_vars

\* A full inventory has just refused a resource that a stack of its type had
\* room for.
FullInventoryRejectsWitness ==
    /\ last.op = "add_item" /\ last.res = "InventoryFull"
    /\ Len(inv.items) = inv.max_size
    /\ last.item[1].tag = "Resource"
    /\ \E i \in 1..Len(inv.items) :
          /\ inv.items[i].tag = "Resource"
          /\ inv.items[i].resource_type = last.item[1].resource_type
          /\ inv.items[i].quantity + last.item[1].quantity <= MAX_STACK

(***************************************************************************)
(* C10  Order split: settle on a head Move(dir, speed, distance) started   *)
(* at t0, with elapsed * speed >= 1000, tiles = min(distance, elapsed *    *)
(* speed / 1000) < distance and cost * tiles <= energy, puts the ship      *)
(* `tiles` steps further in dir on the grid and rewrites the head as       *)
(* Move(dir, speed, distance - tiles) started at now; the rest of the      *)
(* queue stays.                                                             *)
(***************************************************************************)
OrderSplit ==
    [][\A s \in ShipIds :
          (/\ Settled(s)
           /\ ships[s].orders # <<>>
           /\ ships[s].orders[1].start # None
           /\ ships[s].orders[1].order.tag = "Move")
          => LET head == ships[s].orders[1]
                 o == head.order
                 elapsed == now - head.start[1]
                 tiles == Min(o.distance, (elapsed * o.speed) \div 1000)
                 cost == (100 * o.speed) \div ships[s].max_speed
             IN (/\ elapsed * o.speed >= 1000
                 /\ tiles < o.distance
                 /\ cost * tiles <= EnergyAfterRecharge(s))
                => /\ last'.res = "Ok"
                   /\ ships'[s].position =
                          TorusPosition(ships[s].position, o.direction, tiles)
                   /\ ships'[s].orders =
                          [ships[s].orders EXCEPT
                              ![1] = Slot(MoveOrder(o.direction, o.speed,
                                                    o.distance - tiles),
                                          Some(now))]]_vars

(***************************************************************************)
(* C11  Pop-and-restamp on completion: when settle completes the head      *)
(* order (a Move that covers its whole distance, or a Mine), exactly the   *)
(* head entry is removed, the other entries keep their order, the new head *)
(* (if any) gets start = now and all later entries keep start None; and    *)
(* settle shortens the queue in no other case.                             *)
(***************************************************************************)
PopAndRestampOnCompletion ==
    [][\A s \in ShipIds :
          (Settled(s) /\ ships[s].orders # <<>>)
          => LET old == ships[s].orders
                 new == ships'[s].orders
                 completed ==
                     /\ last'.res = "Ok" /\ last'.ran
                     /\ \/ last'.branch = "Mine"
                        \/ last'.branch = "Move" /\ last'.tiles = old[1].order.distance
             IN /\ completed
                   => /\ Len(new) = Len(old) - 1
                      /\ \A i \in 1..Len(new) : new[i].order = old[i + 1].order
                      /\ new # <<>> => new[1].start = Some(now)
                      /\ \A i \in 2..Len(new) : new[i].start = None
                /\ Len(new) # Len(old) => completed]_vars

\* A settle has just completed the first of three orders: the Mine that
\* followed it is the head, stamped now, and the third order is unstamped.
PopAndRestampOnCompletionWitness ==
    \E s \in DOMAIN ships :
        /\ last.op = "settle" /\ last.ship = s /\ last.res = "Ok" /\ last.ran
        /\ last.branch = "Move" /\ last.tiles = 1
        /\ issued = 3
        /\ Len(ships[s].orders) = 2
        /\ ships[s].orders[1] = Slot(MineOrder(1, "Iron", 1), Some(now))
        /\ ships[s].orders[2].start = None

(***************************************************************************)
(* C12  Mining deferral: when the head order is Mine(site, type, duration) *)
(* started at t0 and now - t0 < duration, or 100 * duration is more than   *)
(* the energy after the recharge, settle returns Ok and the head-order     *)
(* step changes nothing: queue, start ticks, position and cargo stay and   *)
(* no energy is deducted (the ship is as the recharge step left it).       *)
(***************************************************************************)
MiningDeferral ==
    [][\A s \in ShipIds :
          (/\ Settled(s)
           /\ ships[s].orders # <<>>
           /\ ships[s].orders[1].start # None
           /\ ships[s].orders[1].order.tag = "Mine")
          => LET head == ships[s].orders[1]
                 duration == head.order.duration
                 t0 == head.start[1]
             IN (now - t0 < duration \/ 100 * duration > EnergyAfterRecharge(s))
                => /\ last'.res = "Ok"
                   /\ ships'[s] = OnlyRecharged(s)
                   /\ ships'[s].orders = ships[s].orders
                   /\ ships'[s].position = ships[s].position
                   /\ ships'[s].cargo = ships[s].cargo
                   /\ ships'[s].energy = last'.e_recharged]_vars

\* A settle has just left a Mine of 11 blocks waiting, long after its time was
\* up: it costs 1100, more than the ship can ever hold.
MiningDeferralWitness ==
    \E s \in DOMAIN ships :
        /\ last.op = "settle" /\ last.ship = s /\ last.res = "Ok"
        /\ last.branch = "Mine" /\ ~last.ran
        /\ ships[s].orders # <<>>
        /\ ships[s].orders[1].order = MineOrder(1, "Iron", 11)
        /\ ships[s].orders[1].start # None
        /\ now - ships[s].orders[1].start[1] >= 11
        /\ ships[s].energy = ships[s].max_energy
        /\ ships[s].cargo.items = <<>>

\* The units of a resource type that a sequence of items holds.
RECURSIVE QuantityOf(_, _)
QuantityOf(items, resource_type) ==
    IF items = <<>> THEN 0
    ELSE (IF Head(items).tag = "Resource" /\ Head(items).resource_type = resource_type
          THEN Head(items).quantity ELSE 0)
         + QuantityOf(Tail(items), resource_type)

\* The mining rate a planet lists for a resource type it has.
RateOf(planet, resource_type) ==
    planet.mining_rates[CHOOSE i \in 1..Len(planet.resources) :
                            planet.resources[i] = resource_type]

(***************************************************************************)
(* C13  Mining completion: when the head order is Mine(site, type,         *)
(* duration) started at t0 with now - t0 >= duration, 100 * duration is at *)
(* most the energy, the site exists at the ship's position, is unowned or  *)
(* owned by the ship's owner and lists the type, and the cargo is not      *)
(* full, one settle deducts exactly 100 * duration energy, adds exactly    *)
(* rate(type) * duration units of the type to the cargo (and nothing of    *)
(* another type) and removes the Mine order from the queue.                *)
(***************************************************************************)
MiningCompletion ==
    [][\A s \in ShipIds :
          (/\ Settled(s)
           /\ ships[s].orders # <<>>
           /\ ships[s].orders[1].start # None
           /\ ships[s].orders[1].order.tag = "Mine")
          => LET ship == ships[s]
                 o == ship.orders[1].order
                 t0 == ship.orders[1].start[1]
                 site == planets[o.planet_id]
             IN (/\ now - t0 >= o.duration
                 /\ 100 * o.duration <= EnergyAfterRecharge(s)
                 /\ o.planet_id \in DOMAIN planets
                 /\ site.position = ship.position
                 /\ site.owner = None \/ site.owner = Some(ship.owner)
                 /\ \E i \in 1..Len(site.resources) : site.resources[i] = o.resource_type
                 /\ Len(ship.cargo.items) < ship.cargo.max_size)
                => /\ last'.res = "Ok"
                   /\ ships'[s].energy = EnergyAfterRecharge(s) - 100 * o.duration
                   /\ \A t \in ResourceTypes :
                         QuantityOf(ships'[s].cargo.items, t) =
                             QuantityOf(ship.cargo.items, t)
                             + (IF t = o.resource_type
                                THEN RateOf(site, t) * o.duration ELSE 0)
                   /\ Len(ships'[s].orders) = Len(ship.orders) - 1
                   /\ \A i \in 1..Len(ships'[s].orders) :
                         ships'[s].orders[i].order = ship.orders[i + 1].order
                   /\ ships'[s].position = ship.position]_vars

\* A settle has just completed a Mine of 2 blocks on a fresh ship: 200 energy
\* are gone and the cargo holds 2 Iron.
MiningCompletionWitness ==
    \E s \in DOMAIN ships :
        /\ last.op = "settle" /\ last.ship = s /\ last.res = "Ok"
        /\ last.branch = "Mine" /\ last.ran /\ last.cost = 200
        /\ last.e_recharged = 1000
        /\ ships[s].energy = 800
        /\ ships[s].cargo.items = <<NewResource("Iron", 2)>>
        /\ ships[s].orders = <<>>

(***************************************************************************)
(* C14  Non-head orders are unstamped: in every reachable state every      *)
(* queue entry behind the head has start None; order() appends the new     *)
(* entry at the tail, with start = now exactly when the queue was empty    *)
(* and None otherwise.                                                      *)
(***************************************************************************)
NonHeadUnstamped ==
    /\ [](\A s \in DOMAIN ships :
             \A i \in 2..Len(ships[s].orders) : ships[s].orders[i].start = None)
    /\ [][\A s \in ShipIds :
             (/\ s \in DOMAIN ships
              /\ last'.op = "order" /\ last'.ship = s /\ last'.res = "Ok")
             => ships'[s].orders =
                    Append(ships[s].orders,
                           Slot(last'.arg[1],
                                IF ships[s].orders = <<>> THEN Some(now) ELSE None))]_vars

\* order() has just appended a third entry: the head alone has a start tick.
NonHeadUnstampedWitness ==
    \E s \in DOMAIN ships :
        /\ last.op = "order" /\ last.ship = s /\ last.res = "Ok"
        /\ Len(ships[s].orders) = 3
        /\ ships[s].orders[3].order = last.arg[1]
        /\ ships[s].orders[1].start # None
        /\ ships[s].orders[2].start = None
        /\ ships[s].orders[3].start = None

(***************************************************************************)
(* C15  drop_order(ship, index) by the owner: with index < queue length it *)
(* removes exactly the entry at index and leaves every other entry, start  *)
(* tick included, as it was (a new head is not re-stamped); with index >=  *)
(* queue length it fails with InvalidOrder and the queue is unchanged.     *)
(* Nothing else of the ship changes.                                        *)
(***************************************************************************)
DropOrderRemovesOne ==
    [][\A s \in ShipIds :
          (/\ s \in DOMAIN ships
           /\ last'.op = "drop_order" /\ last'.ship = s
           /\ last'.caller = ships[s].owner)
          => LET index == last'.arg[1]
                 old == ships[s].orders
                 new == ships'[s].orders
             IN IF index < Len(old) THEN
                    /\ last'.res = "Ok"
                    /\ Len(new) = Len(old) - 1
                    /\ \A j \in 1..Len(new) :
                          new[j] = old[IF j <= index THEN j ELSE j + 1]
                    /\ ships'[s] = [ships[s] EXCEPT !.orders = new]
                ELSE
                    /\ last'.res = "InvalidOrder"
                    /\ ships'[s] = ships[s]]_vars

\* The owner has just dropped the head of a queue of three: the entry that is
\* now the head has no start tick.
DropOrderRemovesOneWitness ==
    \E s \in DOMAIN ships :
        /\ last.op = "drop_order" /\ last.ship = s /\ last.res = "Ok"
        /\ last.caller = ships[s].owner /\ last.arg = <<0>>
        /\ issued = 3
        /\ Len(ships[s].orders) = 2
        /\ ships[s].orders[1].start = None

(***************************************************************************)
(* C16  Order validation: order(ship, Move(dir, speed, distance)) by the   *)
(* owner fails with InvalidOrder exactly when speed < 0 or speed >         *)
(* max_speed or distance <= 0; order(ship, Mine(site, type, duration))     *)
(* fails with InvalidOrder when duration <= 0, with PlanetNotFound (the    *)
(* spec's SiteNotFound) when the site does not exist, with InvalidOrder    *)
(* when the site does not list the type; a failed order leaves the ship    *)
(* as it was and every other order is appended to the queue.               *)
(***************************************************************************)
OrderValidation ==
    [][\A s \in ShipIds :
          (/\ s \in DOMAIN ships
           /\ last'.op = "order" /\ last'.ship = s
           /\ last'.caller = ships[s].owner)
          => LET o == last'.arg[1]
                 expected ==
                     IF o.tag = "Move" THEN
                         IF o.speed < 0 \/ o.speed > ships[s].max_speed \/ o.distance <= 0
                         THEN "InvalidOrder" ELSE "Ok"
                     ELSE IF o.duration <= 0 THEN "InvalidOrder"
                     ELSE IF o.planet_id \notin DOMAIN planets THEN "PlanetNotFound"
                     ELSE IF \A i \in 1..Len(planets[o.planet_id].resources) :
                                 planets[o.planet_id].resources[i] # o.resource_type
                          THEN "InvalidOrder"
                     ELSE "Ok"
             IN /\ last'.res = expected
                /\ expected # "Ok" => ships'[s] = ships[s]
                /\ expected = "Ok"
                      => /\ Len(ships'[s].orders) = Len(ships[s].orders) + 1
                         /\ SubSeq(ships'[s].orders, 1, Len(ships[s].orders))
                                = ships[s].orders
                         /\ ships'[s].orders[Len(ships'[s].orders)].order = o]_vars

\* The owner's Move of speed 10001 has just been refused, and the order that
\* was queued before it is still there.
OrderValidationWitness ==
    \E s \in DOMAIN ships :
        /\ last.op = "order" /\ last.ship = s /\ last.res = "InvalidOrder"
        /\ last.caller = ships[s].owner
        /\ last.arg = <<MoveOrder("East", 10001, 1)>>
        /\ Len(ships[s].orders) = 1
        /\ ships[s].orders[1].order = MoveOrder("SouthEast", 0, 1)

(***************************************************************************)
(* C17  Coordinate round-trip: for every offset position p = (col, row)    *)
(* with 0 <= col < MAX_X and 0 <= row < MAX_Y, the cube triple (q, r, s)   *)
(* of p satisfies q + r + s = 0 and converting it back gives p.            *)
(***************************************************************************)
CoordinateRoundTrip ==
    /\ coord.cube # None
          => coord.cube[1][1] + coord.cube[1][2] + coord.cube[1][3] = 0
    /\ coord.back # None => coord.back[1] = coord.offset

\* The last position of the grid, on an odd row, has been converted and
\* converted back.
CoordinateRoundTripWitness ==
    /\ coord.offset = <<MAX_X - 1, MAX_Y - 1>>
    /\ coord.cube = Some(<<MAX_X - 1 - (MAX_Y - 2) \div 2, MAX_Y - 1,
                           (MAX_Y - 2) \div 2 - (MAX_X - 1) - (MAX_Y - 1)>>)
    /\ coord.back = Some(<<MAX_X - 1, MAX_Y - 1>>)

(***************************************************************************)
(* C18  spawn(id) on an id that already exists fails with                  *)
(* ShipAlreadyExists and changes nothing: the stored ship is untouched and *)
(* the list of ship ids gains no entry; the list never holds an id twice   *)
(* and holds exactly the ids of the stored ships.                          *)
(***************************************************************************)
SpawnOnce ==
    /\ [](/\ \A i, j \in 1..Len(ship_ids) : ship_ids[i] = ship_ids[j] => i = j
          /\ { ship_ids[i] : i \in 1..Len(ship_ids) } = DOMAIN ships)
    /\ [][\A s \in ShipIds :
             (s \in DOMAIN ships /\ last'.op = "spawn" /\ last'.ship = s)
             => /\ last'.res = "ShipAlreadyExists"
                /\ ships' = ships
                /\ ship_ids' = ship_ids
                /\ planets' = planets]_vars

\* A second spawn of a ship that has moved and has an order queued has just
\* been refused: the ship is not back at its start and the id is listed once.
SpawnOnceWitness ==
    \E s \in DOMAIN ships :
        /\ last.op = "spawn" /\ last.ship = s /\ last.res = "ShipAlreadyExists"
        /\ ship_ids = <<s>>
        /\ ships[s].position # <<0, 0>>
        /\ ships[s].orders # <<>>
        /\ ships[s].energy < ships[s].max_energy

(***************************************************************************)
(* C19  settle is total on accepted orders: whatever Move order() accepted *)
(* (0 <= speed <= max_speed, distance > 0, speed 0 and speeds whose cost   *)
(* 100 * speed / max_speed truncates to 0 included), at every energy and   *)
(* after every wait, settle_movement never divides by zero.                *)
(***************************************************************************)
SettleMovementTotal ==
    [][\A s \in ShipIds :
          (/\ Settled(s)
           /\ ships[s].orders # <<>>
           /\ ships[s].orders[1].start # None
           /\ ships[s].orders[1].order.tag = "Move")
          => last'.res # "DivisionByZero"]_vars

\* A settle has just moved a ship 10001 tiles at a cost of 0 per tile.
SettleMovementTotalWitness ==
    \E s \in DOMAIN ships :
        /\ last.op = "settle" /\ last.ship = s /\ last.res = "Ok"
        /\ last.branch = "Move" /\ last.ran
        /\ last.cost = 0 /\ last.tiles = 10001
        /\ ships[s].energy = last.e_recharged
        /\ ships[s].orders # <<>>
        /\ ships[s].orders[1].order = MoveOrder("West", 99, 9999)

\* Ship s has a stamped Move at the head of its queue, blocks are still to
\* come, and k of the orders it was given are finished.
MoveUnderWay(s, k) ==
    /\ s \in DOMAIN ships
    /\ now <= MaxTick
    /\ ships[s].orders # <<>>
    /\ ships[s].orders[1].start # None
    /\ ships[s].orders[1].order.tag = "Move"
    /\ issued - Len(ships[s].orders) = k

\* More than k of the orders ship s was given are finished.
FinishedMoreThan(s, k) ==
    s \in DOMAIN ships /\ issued - Len(ships[s].orders) > k

(***************************************************************************)
(* C20  Move liveness: if the head order of a ship is a Move that order()  *)
(* accepted, the block number keeps advancing and settle is called again   *)
(* and again with no drop_order, the Move is eventually completed and      *)
(* removed from the queue.                                                  *)
(***************************************************************************)
MoveCompletes ==
    \A s \in ShipIds, k \in 0..MaxOrders :
        MoveUnderWay(s, k) ~> FinishedMoreThan(s, k)

\* The same, for the Moves of a speed above 0.
FastMoveCompletes ==
    \A s \in ShipIds, k \in 0..MaxOrders :
        (MoveUnderWay(s, k) /\ ships[s].orders[1].order.speed > 0)
            ~> FinishedMoreThan(s, k)

\* Ship s has a stamped Mine at the head of its queue, sits on the site, which
\* is unowned, has free cargo slots, blocks are still to come, and k of the
\* orders it was given are finished.
MineUnderWay(s, k) ==
    /\ s \in DOMAIN ships
    /\ now <= MaxTick
    /\ ships[s].orders # <<>>
    /\ ships[s].orders[1].start # None
    /\ ships[s].orders[1].order.tag = "Mine"
    /\ ships[s].orders[1].order.planet_id \in DOMAIN planets
    /\ planets[ships[s].orders[1].order.planet_id].position = ships[s].position
    /\ planets[ships[s].orders[1].order.planet_id].owner = None
    /\ Len(ships[s].cargo.items) < ships[s].cargo.max_size
    /\ issued - Len(ships[s].orders) = k

(***************************************************************************)
(* C21  Mine liveness: if the head order of a ship is a Mine that order()  *)
(* accepted, the ship sits on the site, the site is unowned and the cargo  *)
(* has free slots, the block number keeps advancing and settle is called   *)
(* again and again, the Mine is eventually completed, whatever its         *)
(* duration.                                                                *)
(***************************************************************************)
MineCompletes ==
    \A s \in ShipIds, k \in 0..MaxOrders :
        MineUnderWay(s, k) ~> FinishedMoreThan(s, k)

\* The same, for the Mines that cost no more than max_energy.
PayableMineCompletes ==
    \A s \in ShipIds, k \in 0..MaxOrders :
        (/\ MineUnderWay(s, k)
         /\ 100 * ships[s].orders[1].order.duration <= ships[s].max_energy)
            ~> FinishedMoreThan(s, k)

\* The distance the queue of a ship still holds: that of its head Move, or 0.
RemainingDistance(ship) ==
    IF ship.orders = <<>> THEN 0 ELSE ship.orders[1].order.distance

(***************************************************************************)
(* C22  Settlement-schedule independence for movement: of two ships that   *)
(* were given the same single Move at the same block from the same         *)
(* position, with energy for the whole distance, the one that is settled   *)
(* at an intermediate block and then at t2 has, after t2, the position and *)
(* the remaining distance of the one that is settled at t2 only.           *)
(***************************************************************************)
ScheduleIndependence ==
    [][\A o \in ScheduleOrders :
          (/\ {1, 2} \subseteq DOMAIN ships
           \* ship 1 was given o at block 0 and has been settled, last at `now`
           /\ last.op = "settle" /\ last.ship = 1 /\ last.res = "Ok"
           /\ ships[1].orders = <<>> \/ /\ Len(ships[1].orders) = 1
                                         /\ ships[1].orders[1].order.direction = o.direction
                                         /\ ships[1].orders[1].order.speed = o.speed
           /\ ships[1].position # <<0, 0>> \/ ships[1].orders # <<>>
           \* ship 2 was given o at block 0 and no settle has changed it
           /\ ships[2] = [NewShip(2, ships[2].owner, 0) EXCEPT
                              !.orders = <<Slot(o, Some(0))>>]
           /\ move_energy_per_tile(o.speed, ships[2].max_speed) * o.distance
                  <= ships[2].energy
           \* and is now settled at the same block
           /\ last'.op = "settle" /\ last'.ship = 2)
          => /\ ships'[2].position = ships[1].position
             /\ RemainingDistance(ships'[2]) = RemainingDistance(ships[1])]_vars

(***************************************************************************)
(* C23  Recharge is bounded by the time between settlements: once a settle *)
(* or settle_recharge_only of a ship has succeeded at block `now`, the     *)
(* recharge step of the next such call on that ship at the same block adds *)
(* no energy (at most recharge_rate * 0).                                   *)
(***************************************************************************)
RechargeBoundedByElapsed ==
    [][\A s \in ShipIds :
          (/\ s \in DOMAIN ships
           /\ last.op \in {"settle", "settle_recharge_only"}
           /\ last.ship = s /\ last.res = "Ok"
           /\ last'.op \in {"settle", "settle_recharge_only"}
           /\ last'.ship = s /\ last'.res = "Ok"
           /\ now' = now)
          => last'.e_recharged - ships[s].energy <= ships[s].recharge_rate * 0]_vars

\* The head of the queue of ship s has no start tick.
Blocked(s) ==
    /\ s \in DOMAIN ships
    /\ ships[s].orders # <<>>
    /\ ships[s].orders[1].start = None

(***************************************************************************)
(* C24  Dropping the head blocks the queue: drop_order(ship, 0) on a queue *)
(* of two orders or more leaves a head without start tick; from then on    *)
(* every settle of the ship fails with InvalidOrder and stores nothing,    *)
(* order() and settle do not end this, which lasts until drop_order has    *)
(* emptied the queue; meanwhile no order of the queue executes: the ship   *)
(* does not move and its cargo does not change.                            *)
(***************************************************************************)
DroppedHeadBlocksQueue ==
    [][\A s \in ShipIds :
          /\ (/\ s \in DOMAIN ships
              /\ last'.op = "drop_order" /\ last'.ship = s /\ last'.res = "Ok"
              /\ last'.arg = <<0>>
              /\ Len(ships[s].orders) >= 2)
             => Blocked(s)'
          /\ Blocked(s)
             => /\ Settled(s) => (last'.res = "InvalidOrder" /\ ships' = ships)
                /\ \/ Blocked(s)'
                   \/ /\ ships'[s].orders = <<>>
                      /\ last'.op = "drop_order" /\ last'.res = "Ok"
                /\ ships'[s].position = ships[s].position
                /\ ships'[s].cargo = ships[s].cargo
                /\ last'.op # "drop_order"
                      => SubSeq(ships'[s].orders, 1, Len(ships[s].orders))
                             = ships[s].orders]_vars

\* Long after the head was dropped, a settle has just failed with InvalidOrder:
\* the ship, short of energy, was not recharged, and two orders wait.
DroppedHeadBlocksQueueWitness ==
    \E s \in DOMAIN ships :
        /\ last.op = "settle" /\ last.ship = s /\ last.res = "InvalidOrder"
        /\ last.branch = "unstamped"
        /\ Len(ships[s].orders) = 2
        /\ ships[s].orders[1].start = None
        /\ ships[s].energy < ships[s].max_energy
        /\ now > ships[s].last_recharge
        /\ last.e_recharged > ships[s].energy

(***************************************************************************)
(* C25  Failed settle is atomic: whenever settle returns an error          *)
(* (ShipNotFound, InvalidOrder, PlanetNotFound, ResourceNotFound,          *)
(* NotPlanetOwner, NotEnoughInventorySpace), what the contract stores is   *)
(* what it stored before the call: no recharge, no energy deduction, no    *)
(* cargo change and no queue change.                                        *)
(***************************************************************************)
FailedSettleAtomic ==
    [][(last'.op = "settle" /\ last'.res # "Ok")
           => /\ last'.res \in {"ShipNotFound", "InvalidOrder", "PlanetNotFound",
                                "ResourceNotFound", "NotPlanetOwner",
                                "NotEnoughInventorySpace"}
              /\ ships' = ships
              /\ ship_ids' = ship_ids
              /\ planets' = planets]_vars

\* A settle of a Mine, due and paid for, has just failed with ResourceNotFound
\* because the ship has left the site: the recharge the call had computed is
\* not stored.
FailedSettleAtomicWitness ==
    \E s \in DOMAIN ships :
        /\ last.op = "settle" /\ last.ship = s /\ last.res = "ResourceNotFound"
        /\ last.branch = "Mine"
        /\ ships[s].position # <<0, 0>>
        /\ ships[s].orders[1].start # None
        /\ now - ships[s].orders[1].start[1] >= ships[s].orders[1].order.duration
        /\ ships[s].energy < ships[s].max_energy
        /\ now > ships[s].last_recharge
        /\ last.e_recharged > ships[s].energy

====
